---------------------------- MODULE Spec2Model ----------------------------
(***************************************************************************)
(* Model of txvotepool/reactor.go: the peer identifier registry            *)
(* (txpoolIDs), the gossip coordinator (TxpoolReactor.AddPeer, RemovePeer, *)
(* Receive), the wire decoder (decodeMsg) and the per-peer broadcast loop  *)
(* (TxpoolReactor.broadcastTxRoutine).                                     *)
(***************************************************************************)
EXTENDS Integers, Sequences, FiniteSets, TLC

(***************************************************************************)
(* Bounds of the model.                                                    *)
(***************************************************************************)
\* Width of a peer ID in bits (uint16 in the source, scaled down).
IdBits == 2
\* Number of peer identities (p2p.ID) the registry is called with.
NumPeers == 3
\* Number of peers the Switch connects to the reactor.
NumSwitchPeers == 2
\* Number of entries the pool accepts.
MaxEntries == 2
\* The pool's height, at which it accepts its entries; peers report
\* heights below it.
MaxHeight == 2
\* Number of entries the pool accepts in the runs that follow every peer.
MaxShared == 1
\* Lengths of the byte strings decoded on their own: from MaxOff below
\* maxMsgSize to MaxOff above it.
MaxOff == 2

(***************************************************************************)
(* Program constants.                                                      *)
(***************************************************************************)
\* uint16 arithmetic is modulo Wrap.
Wrap == 2 ^ IdBits
\* maxActiveIDs = math.MaxUint16
maxActiveIDs == Wrap - 1
\* UnknownPeerID uint16 = 0
UnknownPeerID == 0
\* maxMsgSize = 1048576
maxMsgSize == 1048576

IDs == 0 .. (Wrap - 1)
Peers == 1 .. NumPeers
SwitchPeers == 1 .. NumSwitchPeers
Entries == 1 .. MaxEntries
\* PeerState.GetHeight() of a peer that has a state; NoState when
\* peer.Get(PeerStateKey) is no PeerState.
NoState == -1
PeerHeights == 0 .. (MaxHeight - 1)
EntryHeights == {MaxHeight}
\* The nil *clist.CElement.
Nil == 0

VARIABLES
    peerMap,     \* txpoolIDs.peerMap: function from the mapped peers to their ID
    activeIDs,   \* txpoolIDs.activeIDs: the set of keys of the map
    nextID,      \* txpoolIDs.nextID (uint16)
    aborted,     \* the process has panicked in nextPeerID
    lastCall,    \* the last registry call made and what it returned
    rereserved,  \* history: ReserveForPeer was called for a peer that was mapped
    mtx,         \* txpoolIDs.mtx: the peer whose call holds the write lock
                 \* (0 when none) and the peers whose calls hold a read lock
    thread,      \* per peer: the registry call in progress for it, statement
                 \* by statement, and its locals
    frame,       \* the bytes handed to decodeMsg
    decoded,     \* what decodeMsg returned for which bytes
    suppliers,   \* history, per entry: the peers whose Receive made the pool
                 \* record a sender of the entry
    sent,        \* history, per peer: the entries for which peer.Send returned
                 \* true
    broadcast,   \* txR.config.Broadcast
    running,     \* txR.IsRunning(); txR.Quit() is closed when FALSE
    conn,        \* per peer: "none" (not added), "up" (added, peer.IsRunning()),
                 \* "stopped" (peer.Quit() closed, RemovePeer not yet called),
                 \* "removed" (RemovePeer called)
    peerHeight,  \* per peer: peer.Get(PeerStateKey).GetHeight(), or NoState
    event,       \* what the step just taken did towards the pool, the
                 \* Switch or a peer: the Receive call, or the sent entry
    nApp,        \* pool: number of entries appended so far (entry e is the e-th)
    live,        \* pool: the entries in the list (appended and not removed)
    nextOf,      \* pool: CElement.next of each entry
    height,      \* pool: mempoolTxVote.Height() of each entry
    senders,     \* pool: mempoolTxVote.senders of each entry
    pc,          \* per peer: where its broadcastTxRoutine stands
    next,        \* per peer: the local next of broadcastTxRoutine
    peerID,      \* per peer: the local peerID of broadcastTxRoutine
    maxSent      \* per peer: the entry appended last among those for which
                 \* peer.Send returned true, 0 when there is none

idsVars == <<peerMap, activeIDs, nextID, aborted>>
histVars == <<suppliers, sent>>
sideVars == <<mtx, thread, frame, decoded>>
callVars == <<lastCall, rereserved, sideVars, histVars>>
envVars == <<broadcast, running, conn, peerHeight>>
poolVars == <<nApp, live, nextOf, height, senders>>
loopVars == <<pc, next, peerID, maxSent>>
reactorVars == <<envVars, event, poolVars, loopVars>>
vars == <<idsVars, callVars, envVars, event, poolVars, loopVars>>

NoCall == [op |-> "none", peer |-> 0, id |-> 0, ok |-> FALSE]

\* No registry call in progress for a peer; in: AddPeer was called for the
\* peer and RemovePeer was not.
NoThread == [op |-> "none", pc |-> "idle", cur |-> 0, ok |-> FALSE,
             in |-> FALSE]
\* sync.RWMutex, unlocked.
Unlocked == [writer |-> 0, readers |-> {}]
NoFrame == [size |-> 0, shape |-> "nil", tx |-> 0]
NoResult == [of |-> NoFrame, err |-> "nil", shape |-> "nil", tx |-> 0]

(***************************************************************************)
(* The registry: txpoolIDs.                                                *)
(***************************************************************************)
\* newTxpoolIDs()
newTxpoolIDs ==
    /\ peerMap = << >>
    /\ activeIDs = {0}
    /\ nextID = 1

\* A probe that rescans from 1 and returns the smallest free non-zero ID.
ProbeMin(n, active) ==
    IF \E k \in 1 .. (Wrap - 1) : k \notin active
    THEN CHOOSE k \in 1 .. (Wrap - 1) :
             /\ k \notin active
             /\ \A j \in 1 .. (k - 1) : j \in active
    ELSE n

\* A probe without the loop: the cursor's ID, whether active or not.
ProbeNoLoop(n, active) == n

\* The for loop of nextPeerID: probe upward from n, modulo 2^IdBits, until
\* an ID that is no key of activeIDs.
RECURSIVE Probe(_, _)
Probe(n, active) ==
    IF n \in active THEN Probe((n + 1) % Wrap, active) ELSE n

\* A guard that panics only once every ID, zero included, is active.
PanicsLenIsFull(active) == Cardinality(active) = Wrap

\* The guard of nextPeerID: len(ids.activeIDs) == maxActiveIDs panics.
Panics(active) == Cardinality(active) = maxActiveIDs

\* ReserveForPeer(peer): curID := nextPeerID(); peerMap[peer] = curID;
\* activeIDs[curID] = {}.  A panic in nextPeerID aborts the process and
\* leaves the registry as it was.
ReserveForPeer(p) ==
    IF Panics(activeIDs)
    THEN /\ aborted' = TRUE
         /\ UNCHANGED <<peerMap, activeIDs, nextID>>
    ELSE LET curID == Probe(nextID, activeIDs) IN
         /\ peerMap' = [q \in (DOMAIN peerMap) \cup {p} |->
                           IF q = p THEN curID ELSE peerMap[q]]
         /\ activeIDs' = activeIDs \cup {curID}
         /\ nextID' = (curID + 1) % Wrap
         /\ UNCHANGED aborted

\* Reclaim that forgets delete(ids.activeIDs, removedID).
ReclaimKeepsActive(p) ==
    /\ peerMap' = [q \in (DOMAIN peerMap) \ {p} |-> peerMap[q]]
    /\ UNCHANGED <<activeIDs, nextID, aborted>>

\* Reclaim without the ok test: the zero value of a missing key is deleted.
ReclaimNoOkTest(p) ==
    LET removedID == IF p \in DOMAIN peerMap THEN peerMap[p] ELSE 0 IN
    /\ activeIDs' = activeIDs \ {removedID}
    /\ peerMap' = [q \in (DOMAIN peerMap) \ {p} |-> peerMap[q]]
    /\ UNCHANGED <<nextID, aborted>>

\* Reclaim(peer): removedID, ok := peerMap[peer]; if ok, delete both.
Reclaim(p) ==
    IF p \in DOMAIN peerMap
    THEN /\ activeIDs' = activeIDs \ {peerMap[p]}
         /\ peerMap' = [q \in (DOMAIN peerMap) \ {p} |-> peerMap[q]]
         /\ UNCHANGED <<nextID, aborted>>
    ELSE UNCHANGED <<peerMap, activeIDs, nextID, aborted>>

\* A lookup that returns the zero value for every peer.
GetForPeerZero(p) == 0

\* GetForPeer(peer): ids.peerMap[peer], the zero value when there is no key.
GetForPeer(p) == IF p \in DOMAIN peerMap THEN peerMap[p] ELSE 0

(***************************************************************************)
(* The registry called directly: any peer, any order.                      *)
(***************************************************************************)
NoEvent == [op |-> "none", peer |-> 0, bad |-> FALSE, tx |-> 0,
            err |-> "nil", stop |-> "nil", prov |-> 0, res |-> "none"]

\* NewTxpoolReactor(config, txpool): no peer added, an empty pool.
NewTxpoolReactor ==
    /\ newTxpoolIDs
    /\ aborted = FALSE
    /\ lastCall = NoCall
    /\ rereserved = FALSE
    /\ mtx = Unlocked
    /\ thread = [p \in Peers |-> NoThread]
    /\ frame = NoFrame
    /\ decoded = NoResult
    /\ suppliers = [e \in Entries |-> {}]
    /\ sent = [p \in SwitchPeers |-> {}]
    /\ running = TRUE
    /\ conn = [p \in SwitchPeers |-> "none"]
    /\ peerHeight = [p \in SwitchPeers |-> NoState]
    /\ event = NoEvent
    /\ nApp = 0
    /\ live = {}
    /\ nextOf = [e \in Entries |-> Nil]
    /\ height = [e \in Entries |-> 0]
    /\ senders = [e \in Entries |-> {}]
    /\ pc = [p \in SwitchPeers |-> "idle"]
    /\ next = [p \in SwitchPeers |-> Nil]
    /\ peerID = [p \in SwitchPeers |-> 0]
    /\ maxSent = [p \in SwitchPeers |-> 0]

InitIDs ==
    /\ NewTxpoolReactor
    /\ broadcast = TRUE

CallReserveForPeer ==
    \E p \in Peers :
        /\ ~aborted
        /\ ReserveForPeer(p)
        /\ lastCall' = [op |-> "ReserveForPeer", peer |-> p,
                        id |-> IF aborted' THEN 0 ELSE peerMap'[p],
                        ok |-> ~aborted']
        /\ rereserved' = (rereserved \/ (p \in DOMAIN peerMap /\ ~aborted'))
        /\ UNCHANGED <<sideVars, histVars, reactorVars>>

CallReclaim ==
    \E p \in Peers :
        /\ ~aborted
        /\ Reclaim(p)
        /\ lastCall' = [op |-> "Reclaim", peer |-> p,
                        id |-> GetForPeer(p),
                        ok |-> p \in DOMAIN peerMap]
        /\ UNCHANGED <<rereserved, sideVars, histVars, reactorVars>>

NextIDs == CallReserveForPeer \/ CallReclaim

SpecIDs == InitIDs /\ [][NextIDs]_vars

(***************************************************************************)
(* The registry called from several goroutines at once: each call is run   *)
(* statement by statement, under ids.mtx.                                  *)
(***************************************************************************)
OtherVars == <<lastCall, rereserved, frame, decoded, histVars, reactorVars>>

\* The call of peer p is past its Lock or RLock and before its unlock.
Holds(p) == thread[p].pc \notin {"idle", "lock"}

\* A Lock that takes the mutex whoever holds it.
LockFree == TRUE

\* ids.mtx.Lock() can return: no writer and no reader holds the mutex.
CanLock == mtx.writer = 0 /\ mtx.readers = {}

\* ids.mtx.RLock() can return: no writer holds the mutex.
CanRLock == mtx.writer = 0

\* A goroutine enters ReserveForPeer (AddPeer of a peer not added), Reclaim
\* (RemovePeer of a peer added) or GetForPeer for peer p.
BeginCall(p) ==
    \E op \in {"reserve", "reclaim", "lookup"} :
        /\ ~aborted
        /\ thread[p].op = "none"
        /\ op = "reserve" => ~thread[p].in
        /\ op = "reclaim" => thread[p].in
        /\ thread' = [thread EXCEPT ![p] = [@ EXCEPT !.op = op, !.pc = "lock"]]
        /\ UNCHANGED <<idsVars, mtx, OtherVars>>

\* ids.mtx.Lock() of ReserveForPeer and Reclaim; ids.mtx.RLock() of
\* GetForPeer.
MtxLock(p) ==
    /\ ~aborted
    /\ thread[p].pc = "lock"
    /\ IF thread[p].op = "lookup"
       THEN /\ CanRLock
            /\ mtx' = [mtx EXCEPT !.readers = @ \cup {p}]
            /\ thread' = [thread EXCEPT ![p].pc = "get"]
       ELSE /\ CanLock
            /\ mtx' = [mtx EXCEPT !.writer = p]
            /\ thread' = [thread EXCEPT
                             ![p].pc = IF thread[p].op = "reserve"
                                       THEN "len" ELSE "read"]
    /\ UNCHANGED <<idsVars, OtherVars>>

\* nextPeerID: if len(ids.activeIDs) == maxActiveIDs { panic(...) }
ReserveLen(p) ==
    /\ ~aborted
    /\ thread[p].pc = "len"
    /\ IF Panics(activeIDs)
       THEN /\ aborted' = TRUE
            /\ UNCHANGED thread
       ELSE /\ thread' = [thread EXCEPT ![p].pc = "probe"]
            /\ UNCHANGED aborted
    /\ UNCHANGED <<peerMap, activeIDs, nextID, mtx, OtherVars>>

\* nextPeerID: the for loop, which leaves ids.nextID on an ID that is not
\* active, and curID := ids.nextID.
ReserveProbe(p) ==
    /\ ~aborted
    /\ thread[p].pc = "probe"
    /\ nextID' = Probe(nextID, activeIDs)
    /\ thread' = [thread EXCEPT ![p].pc = "inc", ![p].cur = nextID']
    /\ UNCHANGED <<peerMap, activeIDs, aborted, mtx, OtherVars>>

\* nextPeerID: ids.nextID++; return curID
ReserveInc(p) ==
    /\ ~aborted
    /\ thread[p].pc = "inc"
    /\ nextID' = (nextID + 1) % Wrap
    /\ thread' = [thread EXCEPT ![p].pc = "map"]
    /\ UNCHANGED <<peerMap, activeIDs, aborted, mtx, OtherVars>>

\* ReserveForPeer: ids.peerMap[peer.ID()] = curID
ReserveMap(p) ==
    /\ ~aborted
    /\ thread[p].pc = "map"
    /\ peerMap' = [q \in (DOMAIN peerMap) \cup {p} |->
                      IF q = p THEN thread[p].cur ELSE peerMap[q]]
    /\ thread' = [thread EXCEPT ![p].pc = "activate"]
    /\ UNCHANGED <<activeIDs, nextID, aborted, mtx, OtherVars>>

\* ReserveForPeer: ids.activeIDs[curID] = struct{}{}
ReserveActivate(p) ==
    /\ ~aborted
    /\ thread[p].pc = "activate"
    /\ activeIDs' = activeIDs \cup {thread[p].cur}
    /\ thread' = [thread EXCEPT ![p].pc = "unlock", ![p].in = TRUE]
    /\ UNCHANGED <<peerMap, nextID, aborted, mtx, OtherVars>>

\* Reclaim: removedID, ok := ids.peerMap[peer.ID()]
ReclaimRead(p) ==
    /\ ~aborted
    /\ thread[p].pc = "read"
    /\ thread' = [thread EXCEPT
                     ![p].ok = p \in DOMAIN peerMap,
                     ![p].cur = IF p \in DOMAIN peerMap THEN peerMap[p] ELSE 0,
                     ![p].pc = IF p \in DOMAIN peerMap
                               THEN "delActive" ELSE "unlock",
                     ![p].in = FALSE]
    /\ UNCHANGED <<idsVars, mtx, OtherVars>>

\* Reclaim: delete(ids.activeIDs, removedID)
ReclaimDelActive(p) ==
    /\ ~aborted
    /\ thread[p].pc = "delActive"
    /\ activeIDs' = activeIDs \ {thread[p].cur}
    /\ thread' = [thread EXCEPT ![p].pc = "delMap"]
    /\ UNCHANGED <<peerMap, nextID, aborted, mtx, OtherVars>>

\* Reclaim: delete(ids.peerMap, peer.ID())
ReclaimDelMap(p) ==
    /\ ~aborted
    /\ thread[p].pc = "delMap"
    /\ peerMap' = [q \in (DOMAIN peerMap) \ {p} |-> peerMap[q]]
    /\ thread' = [thread EXCEPT ![p].pc = "unlock"]
    /\ UNCHANGED <<activeIDs, nextID, aborted, mtx, OtherVars>>

\* GetForPeer: return ids.peerMap[peer.ID()]
LookupGet(p) ==
    /\ ~aborted
    /\ thread[p].pc = "get"
    /\ thread' = [thread EXCEPT ![p].cur = GetForPeer(p),
                                ![p].ok = p \in DOMAIN peerMap,
                                ![p].pc = "unlock"]
    /\ UNCHANGED <<idsVars, mtx, OtherVars>>

\* The deferred ids.mtx.Unlock() or ids.mtx.RUnlock(); the call returns.
MtxUnlock(p) ==
    /\ ~aborted
    /\ thread[p].pc = "unlock"
    /\ mtx' = IF thread[p].op = "lookup"
              THEN [mtx EXCEPT !.readers = @ \ {p}]
              ELSE [mtx EXCEPT !.writer = IF @ = p THEN 0 ELSE @]
    /\ thread' = [thread EXCEPT ![p] = [NoThread EXCEPT !.in = thread[p].in]]
    /\ UNCHANGED <<idsVars, OtherVars>>

ThreadStep(p) ==
    \/ BeginCall(p)
    \/ MtxLock(p)
    \/ ReserveLen(p)
    \/ ReserveProbe(p)
    \/ ReserveInc(p)
    \/ ReserveMap(p)
    \/ ReserveActivate(p)
    \/ ReclaimRead(p)
    \/ ReclaimDelActive(p)
    \/ ReclaimDelMap(p)
    \/ LookupGet(p)
    \/ MtxUnlock(p)

\* The Switch calls AddPeer and RemovePeer for its peers, each from its own
\* goroutine; Receive and the broadcast routines look IDs up.
NextLock == \E p \in SwitchPeers : ThreadStep(p)

SpecLock == InitIDs /\ [][NextLock]_vars

(***************************************************************************)
(* The pool's list of entries, as the reactor reads it: TxsFront,          *)
(* TxsWaitChan, CElement.Next, CElement.NextWaitChan, and the pool's own   *)
(* CheckTxWithInfo and removal of entries.                                 *)
(***************************************************************************)
Min(S) == CHOOSE x \in S : \A y \in S : x <= y
Max(S) == CHOOSE x \in S : \A y \in S : x >= y

\* txR.Txpool.TxsFront(): the first entry of the list, nil when it is empty.
TxsFront == IF live = {} THEN Nil ELSE Min(live)

\* <-txR.Txpool.TxsWaitChan() can be received: the list is not empty.
TxsAvailable == live # {}

\* <-next.NextWaitChan() can be received: the entry has a successor, or it
\* was removed from the list.
NextWaitReady(e) == nextOf[e] # Nil \/ e \notin live

\* A step to the list's front in place of the successor.
SuccessorIsFront(e) == TxsFront

\* next.Next()
Successor(e) == nextOf[e]

\* The pool appends entry e, accepted at height h from the peer with ID id.
PushBack(e, h, id) ==
    /\ nApp' = e
    /\ live' = live \cup {e}
    /\ nextOf' = IF live = {} THEN nextOf
                 ELSE [nextOf EXCEPT ![Max(live)] = e]
    /\ height' = [height EXCEPT ![e] = h]
    /\ senders' = [senders EXCEPT ![e] = {id}]

\* txR.Txpool.CheckTxWithInfo(tx, TxVoteInfo{PeerID: id}) with result res:
\* "ok" appends a transaction not seen before; "err" rejects it, and records
\* the sender of a transaction that is already an entry of the list.
CheckTxWithInfo(tx, id, res) ==
    IF res = "ok"
    THEN /\ tx = nApp + 1
         /\ \E h \in EntryHeights :
                /\ \A e \in 1 .. nApp : height[e] <= h
                /\ PushBack(tx, h, id)
    ELSE /\ tx <= nApp + 1
         /\ senders' = IF tx \in live
                       THEN [senders EXCEPT ![tx] = @ \cup {id}]
                       ELSE senders
         /\ UNCHANGED <<nApp, live, nextOf, height>>

\* A transaction submitted locally (RPC): CheckTx with UnknownPeerID.
LocalCheckTx ==
    \E tx \in Entries, res \in {"ok", "err"} :
        /\ ~aborted
        /\ CheckTxWithInfo(tx, UnknownPeerID, res)
        /\ event' = NoEvent
        /\ UNCHANGED <<idsVars, callVars, envVars, loopVars>>

\* The pool removes entry e from its list (a committed transaction): the
\* entry before it is linked to the one after it, the removed entry keeps
\* its own next.
RemoveTx ==
    \E e \in live :
        /\ ~aborted
        /\ live' = live \ {e}
        /\ nextOf' = IF \E d \in live : d < e
                     THEN [nextOf EXCEPT
                              ![Max({d \in live : d < e})] = nextOf[e]]
                     ELSE nextOf
        /\ event' = NoEvent
        /\ UNCHANGED <<nApp, height, senders>>
        /\ UNCHANGED <<idsVars, callVars, envVars, loopVars>>

(***************************************************************************)
(* Messages and decodeMsg.                                                 *)
(***************************************************************************)
\* Received bytes: their length and what the codec makes of their content
\* ("tx": a TxMessage carrying tx; "other": another registered type;
\* "garbage": nothing the codec can decode).
Sizes == {maxMsgSize, maxMsgSize + 1}
Msgs == [size : Sizes, shape : {"tx"}, tx : Entries]
            \cup [size : Sizes, shape : {"other", "garbage"}, tx : {0}]

\* The bytes are longer than a message may be, or they are not the encoding
\* of a registered message.
Undecodable(bz) == bz.size > maxMsgSize \/ bz.shape = "garbage"

\* A codec that knows TxMessage alone and fails on every other type.
UnmarshalTxOnly(bz) ==
    IF bz.shape = "tx"
    THEN [err |-> "nil", shape |-> bz.shape, tx |-> bz.tx]
    ELSE [err |-> "decode", shape |-> "nil", tx |-> 0]

\* cdc.UnmarshalBinaryBare(bz, &msg)
UnmarshalBinaryBare(bz) ==
    IF bz.shape = "garbage"
    THEN [err |-> "decode", shape |-> "nil", tx |-> 0]
    ELSE [err |-> "nil", shape |-> bz.shape, tx |-> bz.tx]

\* decodeMsg with the test len(bz) >= maxMsgSize.
decodeMsgRejectsMax(bz) ==
    IF bz.size >= maxMsgSize
    THEN [err |-> "size", shape |-> "nil", tx |-> 0]
    ELSE UnmarshalBinaryBare(bz)

\* decodeMsg without the test of len(bz).
decodeMsgNoSizeTest(bz) == UnmarshalBinaryBare(bz)

\* decodeMsg(bz)
decodeMsg(bz) ==
    IF bz.size > maxMsgSize
    THEN [err |-> "size", shape |-> "nil", tx |-> 0]
    ELSE UnmarshalBinaryBare(bz)

\* Byte strings of the lengths around maxMsgSize, of every content.
FrameSizes == (maxMsgSize - MaxOff) .. (maxMsgSize + MaxOff)
Frames == [size : FrameSizes, shape : {"tx"}, tx : Entries]
              \cup [size : FrameSizes, shape : {"other", "garbage"}, tx : {0}]

\* The next bytes arrive.
ReadFrame ==
    /\ \E bz \in Frames : frame' = bz
    /\ UNCHANGED <<idsVars, lastCall, rereserved, mtx, thread, decoded,
                   histVars, reactorVars>>

\* msg, err := decodeMsg(msgBytes)
Decode ==
    /\ frame # NoFrame
    /\ LET msg == decodeMsg(frame) IN
       decoded' = [of |-> frame, err |-> msg.err, shape |-> msg.shape,
                   tx |-> msg.tx]
    /\ UNCHANGED <<idsVars, lastCall, rereserved, mtx, thread, frame,
                   histVars, reactorVars>>

NextDecode == ReadFrame \/ Decode

SpecDecode == InitIDs /\ [][NextDecode]_vars

(***************************************************************************)
(* The coordinator: AddPeer, RemovePeer, Receive, and what the Switch and  *)
(* the peers do around them.                                               *)
(***************************************************************************)
\* AddPeer(peer): ReserveForPeer, then go broadcastTxRoutine(peer).  The
\* Switch adds each Peer once, started.
AddPeer(p) ==
    /\ ~aborted /\ running
    /\ conn[p] = "none"
    /\ pc[p] = "idle"
    /\ ReserveForPeer(p)
    /\ IF aborted'
       THEN UNCHANGED <<conn, pc>>
       ELSE /\ conn' = [conn EXCEPT ![p] = "up"]
            /\ pc' = [pc EXCEPT ![p] = "start"]
    /\ event' = NoEvent
    /\ UNCHANGED <<callVars, broadcast, running, peerHeight, poolVars,
                   next, peerID, maxSent>>

\* The peer stops (its connection fails, or the Switch stops it).
PeerStop(p) ==
    /\ ~aborted
    /\ conn[p] = "up"
    /\ conn' = [conn EXCEPT ![p] = "stopped"]
    /\ event' = NoEvent
    /\ UNCHANGED <<idsVars, callVars, broadcast, running, peerHeight,
                   poolVars, loopVars>>

\* RemovePeer(peer, reason): Reclaim.  The Switch calls it for a peer it
\* has stopped.
RemovePeer(p) ==
    /\ ~aborted
    /\ conn[p] = "stopped"
    /\ Reclaim(p)
    /\ conn' = [conn EXCEPT ![p] = "removed"]
    /\ event' = NoEvent
    /\ UNCHANGED <<callVars, broadcast, running, peerHeight, poolVars,
                   loopVars>>

\* The reactor is stopped: IsRunning() is false, Quit() is closed.
ReactorStop ==
    /\ ~aborted /\ running
    /\ running' = FALSE
    /\ event' = NoEvent
    /\ UNCHANGED <<idsVars, callVars, broadcast, conn, peerHeight, poolVars,
                   loopVars>>

\* The consensus reactor sets or raises the peer's state.
SetPeerState(p) ==
    \E h \in PeerHeights :
        /\ ~aborted
        /\ conn[p] = "up"
        /\ peerHeight[p] = NoState \/ peerHeight[p] < h
        /\ peerHeight' = [peerHeight EXCEPT ![p] = h]
        /\ event' = NoEvent
        /\ UNCHANGED <<idsVars, callVars, broadcast, running, conn, poolVars,
                       loopVars>>

\* txR.Switch.StopPeerForError(src, err): the peer is stopped; the Switch
\* calls RemovePeer for it afterwards.
StopPeerForError(p) ==
    conn' = [conn EXCEPT ![p] = IF @ = "up" THEN "stopped" ELSE @]

\* Receive(chID, src, msgBytes).  The histories are left to the
\* specification that records them.
Receive(p) ==
    \E bz \in Msgs :
        /\ ~aborted /\ running
        /\ conn[p] # "none"
        /\ LET msg == decodeMsg(bz) IN
           IF msg.err # "nil"
           THEN /\ StopPeerForError(p)
                /\ event' = [op |-> "recv", peer |-> p,
                             bad |-> Undecodable(bz),
                             tx |-> msg.tx,
                             err |-> msg.err, stop |-> msg.err,
                             prov |-> 0, res |-> "none"]
                /\ UNCHANGED poolVars
           ELSE IF msg.shape = "tx"
           THEN \E res \in {"ok", "err"} :
                    /\ CheckTxWithInfo(msg.tx, GetForPeer(p), res)
                    /\ event' = [op |-> "recv", peer |-> p,
                                 bad |-> Undecodable(bz),
                                 tx |-> msg.tx,
                                 err |-> "nil", stop |-> "nil",
                                 prov |-> GetForPeer(p), res |-> res]
                    /\ UNCHANGED conn
           ELSE /\ event' = [op |-> "recv", peer |-> p,
                             bad |-> Undecodable(bz),
                             tx |-> msg.tx,
                             err |-> "nil", stop |-> "nil",
                             prov |-> 0, res |-> "unknown"]
                /\ UNCHANGED <<conn, poolVars>>
        /\ UNCHANGED <<idsVars, lastCall, rereserved, sideVars, broadcast,
                       running, peerHeight, loopVars>>

(***************************************************************************)
(* broadcastTxRoutine(peer), one goroutine per added peer.                 *)
(***************************************************************************)
Sleeps == {"sleepNoState", "sleepBehind", "sleepSend"}

\* A shutdown test that looks at the reactor alone.
QuitReactorOnly(p) == ~running

\* !txR.IsRunning() || !peer.IsRunning(); also: peer.Quit() or txR.Quit()
\* can be received.
Quit(p) == ~running \/ conn[p] # "up"

\* txTx.senders.Load(peerID) finds nothing, whatever the set holds.
HasSenderNever(e, id) == FALSE

\* _, ok := txTx.senders.Load(peerID)
HasSender(e, id) == id \in senders[e]

\* A lag test that allows two blocks.
PeerBehindTwo(h, e) == h < height[e] - 2

\* peerState.GetHeight() < txTx.Height()-1
PeerBehind(h, e) == h < height[e] - 1

\* The start of the loop without the test of config.Broadcast.
LoopStartIgnoresConfig(p) ==
    /\ pc[p] = "start"
    /\ peerID' = [peerID EXCEPT ![p] = GetForPeer(p)]
    /\ pc' = [pc EXCEPT ![p] = "top"]
    /\ event' = NoEvent
    /\ UNCHANGED <<next, maxSent>>

\* Lines 188-192: return when broadcasting is off, else read the peer's ID.
LoopStart(p) ==
    /\ pc[p] = "start"
    /\ IF ~broadcast
       THEN /\ pc' = [pc EXCEPT ![p] = "done"]
            /\ UNCHANGED peerID
       ELSE /\ peerID' = [peerID EXCEPT ![p] = GetForPeer(p)]
            /\ pc' = [pc EXCEPT ![p] = "top"]
    /\ event' = NoEvent
    /\ UNCHANGED <<next, maxSent>>

\* The head of the loop without the test of the cursor.
LoopCheckNoNilTest(p) ==
    /\ pc[p] \in {"top"} \cup Sleeps
    /\ pc' = [pc EXCEPT ![p] = IF Quit(p) THEN "done" ELSE "read"]
    /\ event' = NoEvent
    /\ UNCHANGED <<next, peerID, maxSent>>

\* Lines 196-202, entered at the start of the loop and after each sleep.
LoopCheck(p) ==
    /\ pc[p] \in {"top"} \cup Sleeps
    /\ pc' = [pc EXCEPT ![p] = IF Quit(p) THEN "done"
                                ELSE IF next[p] = Nil THEN "wait"
                                ELSE "read"]
    /\ event' = NoEvent
    /\ UNCHANGED <<next, peerID, maxSent>>

\* Line 204: the select receives from TxsWaitChan().
WaitTxs(p) ==
    /\ pc[p] = "wait"
    /\ TxsAvailable
    /\ pc' = [pc EXCEPT ![p] = "front"]
    /\ event' = NoEvent
    /\ UNCHANGED <<next, peerID, maxSent>>

\* Lines 208-211: the select receives from peer.Quit() or txR.Quit().
WaitQuit(p) ==
    /\ pc[p] = "wait"
    /\ Quit(p)
    /\ pc' = [pc EXCEPT ![p] = "done"]
    /\ event' = NoEvent
    /\ UNCHANGED <<next, peerID, maxSent>>

\* Lines 205-207: next = TxsFront(); continue when it is nil.
Front(p) ==
    /\ pc[p] = "front"
    /\ next' = [next EXCEPT ![p] = TxsFront]
    /\ pc' = [pc EXCEPT ![p] = IF TxsFront = Nil THEN "top" ELSE "read"]
    /\ event' = NoEvent
    /\ UNCHANGED <<peerID, maxSent>>

\* Lines 218-227: the peer has no state; sleep and continue.
PeerNoState(p) ==
    /\ pc[p] = "read"
    /\ peerHeight[p] = NoState
    /\ pc' = [pc EXCEPT ![p] = "sleepNoState"]
    /\ event' = NoEvent
    /\ UNCHANGED <<next, peerID, maxSent>>

\* Lines 228-231: the peer lags by more than one block; sleep and continue.
PeerLags(p) ==
    /\ pc[p] = "read"
    /\ peerHeight[p] # NoState
    /\ PeerBehind(peerHeight[p], next[p])
    /\ pc' = [pc EXCEPT ![p] = "sleepBehind"]
    /\ event' = NoEvent
    /\ UNCHANGED <<next, peerID, maxSent>>

\* Lines 218-231 passed: the peer has a state and does not lag.
PeerReady(p) ==
    /\ peerHeight[p] # NoState
    /\ ~PeerBehind(peerHeight[p], next[p])

\* Lines 234, 244: the peer's ID is a sender of the entry; no send.
EchoSkip(p) ==
    /\ pc[p] = "read"
    /\ PeerReady(p)
    /\ HasSender(next[p], peerID[p])
    /\ pc' = [pc EXCEPT ![p] = "waitNext"]
    /\ event' = NoEvent
    /\ UNCHANGED <<next, peerID, maxSent>>

\* A successful send after which the loop examines the same entry again.
SendOkRepeats(p) ==
    /\ pc[p] = "read"
    /\ PeerReady(p)
    /\ ~HasSender(next[p], peerID[p])
    /\ conn[p] = "up"
    /\ maxSent' = [maxSent EXCEPT ![p] = Max({@, next[p]})]
    /\ pc' = [pc EXCEPT ![p] = "top"]
    /\ event' = [op |-> "send", peer |-> p, bad |-> FALSE,
                 tx |-> next[p], err |-> "nil", stop |-> "nil", prov |-> 0,
                 res |-> "ok"]
    /\ UNCHANGED <<next, peerID>>

\* Lines 234-237, 244: peer.Send returns true.
SendOk(p) ==
    /\ pc[p] = "read"
    /\ PeerReady(p)
    /\ ~HasSender(next[p], peerID[p])
    /\ conn[p] = "up"
    /\ maxSent' = [maxSent EXCEPT ![p] = Max({@, next[p]})]
    /\ pc' = [pc EXCEPT ![p] = "waitNext"]
    /\ event' = [op |-> "send", peer |-> p, bad |-> FALSE,
                 tx |-> next[p], err |-> "nil", stop |-> "nil", prov |-> 0,
                 res |-> "ok"]
    /\ UNCHANGED <<next, peerID>>

\* A failed send after which the loop waits for the successor.
SendFailsMovesOn(p) ==
    /\ pc[p] = "read"
    /\ PeerReady(p)
    /\ ~HasSender(next[p], peerID[p])
    /\ pc' = [pc EXCEPT ![p] = "waitNext"]
    /\ event' = NoEvent
    /\ UNCHANGED <<next, peerID, maxSent>>

\* Lines 234-241: peer.Send returns false; sleep and continue.
SendFails(p) ==
    /\ pc[p] = "read"
    /\ PeerReady(p)
    /\ ~HasSender(next[p], peerID[p])
    /\ pc' = [pc EXCEPT ![p] = "sleepSend"]
    /\ event' = NoEvent
    /\ UNCHANGED <<next, peerID, maxSent>>

\* The select of line 244 never receives from next.NextWaitChan().
NextAvailableNever(p) ==
    /\ FALSE
    /\ UNCHANGED <<pc, next, peerID, maxSent, event>>

\* Lines 245-247: the select receives from next.NextWaitChan().
NextAvailable(p) ==
    /\ pc[p] = "waitNext"
    /\ NextWaitReady(next[p])
    /\ next' = [next EXCEPT ![p] = Successor(next[p])]
    /\ pc' = [pc EXCEPT ![p] = "top"]
    /\ event' = NoEvent
    /\ UNCHANGED <<peerID, maxSent>>

\* Lines 248-251: the select receives from peer.Quit() or txR.Quit().
NextQuit(p) ==
    /\ pc[p] = "waitNext"
    /\ Quit(p)
    /\ pc' = [pc EXCEPT ![p] = "done"]
    /\ event' = NoEvent
    /\ UNCHANGED <<next, peerID, maxSent>>

\* One step of the goroutine of peer p.
LoopStep(p) ==
    /\ ~aborted
    /\ UNCHANGED <<idsVars, lastCall, rereserved, sideVars, envVars,
                   poolVars>>
    /\ \/ LoopStart(p)
       \/ LoopCheck(p)
       \/ WaitTxs(p)
       \/ WaitQuit(p)
       \/ Front(p)
       \/ PeerNoState(p)
       \/ PeerLags(p)
       \/ EchoSkip(p)
       \/ SendOk(p)
       \/ SendFails(p)
       \/ NextAvailable(p)
       \/ NextQuit(p)

\* A step of the goroutine of peer p, the histories not recorded.
LoopRun(p) == LoopStep(p) /\ UNCHANGED histVars

\* What the Switch, the peer and the reactor do about peer p.
PeerNext(p) ==
    \/ AddPeer(p)
    \/ PeerStop(p)
    \/ RemovePeer(p)
    \/ SetPeerState(p)
    \/ Receive(p) /\ UNCHANGED histVars
    \/ LoopRun(p)

\* The peer whose connection a run of SpecLoop follows.
LoopPeer == Min(SwitchPeers)

\* The reactor as constructed, with either setting of config.Broadcast.
InitLoop ==
    /\ NewTxpoolReactor
    /\ broadcast \in BOOLEAN

\* One peer is added to the reactor; transactions come from it and from
\* local submissions, while the pool removes entries, the peer's state
\* changes, and the peer or the reactor stops.
NextLoop ==
    \/ ReactorStop
    \/ LocalCheckTx
    \/ RemoveTx
    \/ PeerNext(LoopPeer)

SpecLoop == InitLoop /\ [][NextLoop]_vars

\* The goroutine is scheduled fairly: while it can take a step, it takes one
\* (a sleep ends, a select with a ready case returns).
FairSpecLoop == SpecLoop /\ WF_vars(LoopRun(LoopPeer))

\* Fair scheduling of the goroutine and a peer.Send (line 236) that
\* returns true at some time when it is called again and again.
FairSendLoop ==
    /\ SpecLoop
    /\ WF_vars(LoopRun(LoopPeer))
    /\ SF_vars(SendOk(LoopPeer) /\ LoopRun(LoopPeer))

(***************************************************************************)
(* Several peers, each connecting again after it was removed, with the     *)
(* histories recorded.                                                     *)
(***************************************************************************)
\* The Switch connects again to a node whose earlier connection was removed
\* and whose goroutine has returned: a new p2p.Peer with the same ID.
Reconnect(p) ==
    /\ ~aborted
    /\ conn[p] = "removed"
    /\ pc[p] = "done"
    /\ conn' = [conn EXCEPT ![p] = "none"]
    /\ peerHeight' = [peerHeight EXCEPT ![p] = NoState]
    /\ pc' = [pc EXCEPT ![p] = "idle"]
    /\ next' = [next EXCEPT ![p] = Nil]
    /\ peerID' = [peerID EXCEPT ![p] = 0]
    /\ maxSent' = [maxSent EXCEPT ![p] = 0]
    /\ event' = NoEvent
    /\ UNCHANGED <<idsVars, callVars, broadcast, running, poolVars>>

\* The history of the Receive call just made: the pool recorded a sender of
\* the entry when it appended the entry or found it in its list.
RecordSupplier(p) ==
    /\ suppliers' = IF event'.res = "ok"
                       \/ (event'.res = "err" /\ event'.tx \in live)
                    THEN [suppliers EXCEPT ![event'.tx] = @ \cup {p}]
                    ELSE suppliers
    /\ UNCHANGED sent

\* The history of the loop step just made.
RecordSent(p) ==
    /\ sent' = IF event'.op = "send"
               THEN [sent EXCEPT ![p] = @ \cup {event'.tx}]
               ELSE sent
    /\ UNCHANGED suppliers

\* The handlers and the goroutine of peer p, every send recorded.
SentNext(p) ==
    \/ AddPeer(p)
    \/ PeerStop(p)
    \/ RemovePeer(p)
    \/ SetPeerState(p)
    \/ Receive(p) /\ UNCHANGED histVars
    \/ LoopStep(p) /\ RecordSent(p)

NextSent ==
    \/ ReactorStop
    \/ LocalCheckTx
    \/ RemoveTx
    \/ SentNext(LoopPeer)

\* One peer, its loop and the pool, with the history of the sends.
SpecSent == InitLoop /\ [][NextSent]_vars

\* The handlers called for peer p, every submission to the pool recorded.
ReuseNext(p) ==
    \/ AddPeer(p)
    \/ PeerStop(p)
    \/ RemovePeer(p)
    \/ Receive(p) /\ nApp' <= MaxShared /\ RecordSupplier(p)

\* Peers that come and go, and one node that connects again and again and
\* whose loop runs.
NextReuse ==
    \/ \E p \in SwitchPeers : ReuseNext(p)
    \/ Reconnect(LoopPeer)
    \/ SetPeerState(LoopPeer)
    \/ LoopRun(LoopPeer)

SpecReuse == InitLoop /\ [][NextReuse]_vars

\* What the Switch and the reactor do about peer p.
PeersNext(p) ==
    \/ AddPeer(p)
    \/ PeerStop(p)
    \/ RemovePeer(p)
    \/ Receive(p) /\ nApp' <= MaxShared /\ UNCHANGED histVars

\* The handlers of the reactor, called for every peer in any order.
NextPeers == \E p \in SwitchPeers : PeersNext(p)

SpecPeers == InitLoop /\ [][NextPeers]_vars

Image == {peerMap[p] : p \in DOMAIN peerMap}

\* The registry call that the step just taken made.
Reserved == lastCall'.op = "ReserveForPeer" /\ lastCall'.ok
Reclaimed == lastCall'.op = "Reclaim"

(***************************************************************************)
(* C1. After any sequence of ReserveForPeer and Reclaim calls the active   *)
(* IDs other than 0 are exactly the IDs that are values of peerMap, and 0  *)
(* is active.                                                              *)
(***************************************************************************)
\* C1 as stated: for every sequence of calls, any peers, any order.
C1_AnyOrder ==
    /\ 0 \in activeIDs
    /\ activeIDs \ {0} = Image

\* C1 amended: 0 is always active and every mapped ID is active; the two
\* sets are equal as long as ReserveForPeer was never called for a peer
\* that had a mapping at the time of the call.
C1_RegistryInvariant ==
    /\ 0 \in activeIDs
    /\ 0 \notin Image
    /\ Image \subseteq activeIDs
    /\ ~rereserved => activeIDs \ {0} = Image

\* A peer was reclaimed while another one stays mapped, no peer reserved twice.
C1_Witness ==
    /\ ~rereserved
    /\ lastCall.op = "Reclaim" /\ lastCall.ok
    /\ DOMAIN peerMap # {}

(***************************************************************************)
(* C2. Every ID that ReserveForPeer assigns lies in 1 .. 2^IdBits - 1, is  *)
(* not active at the moment it is assigned, and no two mapped peers hold   *)
(* the same ID; also after the cursor has wrapped around.                  *)
(***************************************************************************)
C2_FreshNonZeroID ==
    [][Reserved =>
          LET c == lastCall'.id IN
          /\ c \in 1 .. (Wrap - 1)
          /\ c \notin activeIDs
          /\ peerMap'[lastCall'.peer] = c
          /\ \A q, r \in DOMAIN peerMap' :
                 q # r => peerMap'[q] # peerMap'[r]]_vars

\* ID 1 was assigned while the largest ID is held: the cursor has wrapped.
C2_Witness ==
    /\ lastCall.op = "ReserveForPeer" /\ lastCall.ok
    /\ lastCall.id = 1
    /\ \E q \in DOMAIN peerMap : peerMap[q] = Wrap - 1

(***************************************************************************)
(* C3. ReserveForPeer assigns the smallest non-zero ID that is not active  *)
(* (A gets 1, B gets 2, B is reclaimed, C gets 2).                         *)
(***************************************************************************)
\* C3 as stated.
C3_SmallestFree ==
    [][Reserved =>
          /\ lastCall'.id \notin activeIDs
          /\ \A k \in 1 .. (lastCall'.id - 1) : k \in activeIDs]_vars

\* C3 amended: ReserveForPeer assigns the first ID that is not active at or
\* after the cursor nextID, counting modulo 2^IdBits, and leaves the cursor
\* one past the assigned ID.
C3_FirstFreeFromCursor ==
    [][Reserved =>
          LET c == lastCall'.id
              d == (c + Wrap - nextID) % Wrap
          IN  /\ c \notin activeIDs
              /\ \A k \in 0 .. (d - 1) : ((nextID + k) % Wrap) \in activeIDs
              /\ nextID' = (c + 1) % Wrap]_vars

\* A peer holds 1, ID 2 was freed, and the next reservation was given 3.
C3_Witness ==
    /\ lastCall.op = "ReserveForPeer" /\ lastCall.ok
    /\ lastCall.id = 3
    /\ 2 \notin activeIDs
    /\ \E q \in DOMAIN peerMap : peerMap[q] = 1
    /\ ~rereserved

(***************************************************************************)
(* C4. ReserveForPeer panics only when every non-zero ID is active, so     *)
(* 2^IdBits - 1 peers can be active at once.                               *)
(***************************************************************************)
\* C4 as stated (for sequences that reserve no peer twice).
C4_AbortsOnlyWhenAllActive ==
    (aborted /\ ~rereserved) => activeIDs = IDs

\* C4 amended: ReserveForPeer panics exactly when 2^IdBits - 1 IDs, the
\* reserved 0 included, are active, that is with 2^IdBits - 2 non-zero IDs
\* in use; at most 2^IdBits - 2 peers are mapped at once.
C4_AbortsAtMaxActiveIDs ==
    /\ [][lastCall'.op = "ReserveForPeer" =>
             (aborted' <=> Cardinality(activeIDs \ {0}) = Wrap - 2)]_vars
    /\ [](Cardinality(DOMAIN peerMap) <= Wrap - 2)
    /\ [](Cardinality(activeIDs) <= Wrap - 1)

\* The process aborted with 2^IdBits - 2 distinct peers mapped.
C4_Witness ==
    /\ aborted
    /\ ~rereserved
    /\ Cardinality(DOMAIN peerMap) = Wrap - 2

(***************************************************************************)
(* C5. Reclaim of a peer without a mapping changes nothing; Reclaim of a   *)
(* mapped peer removes that peer's mapping and ID and nothing else.        *)
(***************************************************************************)
C5_ReclaimFrame ==
    [][Reclaimed =>
          LET p == lastCall'.peer IN
          /\ p \notin DOMAIN peerMap'
          /\ nextID' = nextID
          /\ aborted' = aborted
          /\ IF p \in DOMAIN peerMap
             THEN /\ DOMAIN peerMap' = (DOMAIN peerMap) \ {p}
                  /\ activeIDs' = activeIDs \ {peerMap[p]}
             ELSE /\ DOMAIN peerMap' = DOMAIN peerMap
                  /\ activeIDs' = activeIDs
          /\ \A q \in DOMAIN peerMap' : peerMap'[q] = peerMap[q]]_vars

\* Reclaim was called for a peer without a mapping while others are mapped.
C5_Witness ==
    /\ lastCall.op = "Reclaim" /\ ~lastCall.ok
    /\ DOMAIN peerMap # {}

\* The step just taken made the peer.Send call that sent an entry to p.
SentTo(p) == event'.op = "send" /\ event'.peer = p

\* The step just taken was a step of p's goroutine out of lines 215-242.
Examined(p) == pc[p] = "read" /\ pc'[p] # "read"

(***************************************************************************)
(* C6. When the ID the loop holds for its peer is in the sender set of the *)
(* entry at the cursor, the loop sends nothing; once the peer's state and  *)
(* lag tests pass it waits for the entry's successor, and its next move of *)
(* the cursor is to that successor.                                        *)
(***************************************************************************)
C6_EchoSuppression ==
    [][\A p \in SwitchPeers :
          /\ SentTo(p) => peerID[p] \notin senders[event'.tx]
          /\ (Examined(p) /\ peerID[p] \in senders[next[p]]) =>
                /\ ~SentTo(p)
                /\ maxSent'[p] = maxSent[p]
                /\ next'[p] = next[p]
                /\ (peerHeight[p] # NoState
                      /\ peerHeight[p] >= height[next[p]] - 1)
                   => pc'[p] = "waitNext"
          /\ (pc[p] = "waitNext" /\ pc'[p] \notin {"waitNext", "done"}) =>
                /\ next'[p] = nextOf[next[p]]
                /\ nextOf[next[p]] # Nil \/ next[p] \notin live]_vars

\* The cursor is on the second entry, the first one is in the list with the
\* peer's ID among its senders, and nothing was sent: the first entry was
\* passed without a send.
C6_Witness ==
    \E p \in SwitchPeers :
        /\ next[p] = 2
        /\ 1 \in live
        /\ peerID[p] \in senders[1]
        /\ peerID[p] # 0
        /\ maxSent[p] = 0

(***************************************************************************)
(* C7. An entry of height H is sent to a peer only when the peer has a     *)
(* state with a height of at least H - 1; while it has none, or a lower    *)
(* height, the loop sleeps and the cursor stays on the entry.              *)
(***************************************************************************)
C7_CatchUp ==
    [][\A p \in SwitchPeers :
          /\ SentTo(p) =>
                /\ event'.tx = next[p]
                /\ peerHeight[p] # NoState
                /\ peerHeight[p] >= height[event'.tx] - 1
          /\ (Examined(p) /\ (peerHeight[p] = NoState
                                \/ peerHeight[p] < height[next[p]] - 1)) =>
                /\ pc'[p] \in Sleeps
                /\ next'[p] = next[p]
                /\ maxSent'[p] = maxSent[p]
          /\ pc[p] \in Sleeps => next'[p] = next[p]]_vars

\* The loop sleeps on an entry two heights above the peer's, not sent.
C7_Witness ==
    \E p \in SwitchPeers :
        /\ pc[p] = "sleepBehind"
        /\ peerHeight[p] # NoState
        /\ height[next[p]] = peerHeight[p] + 2
        /\ maxSent[p] < next[p]

(***************************************************************************)
(* C8. The entries sent to a peer are sent in the order in which they were *)
(* appended: no entry is sent after one that was appended later.           *)
(***************************************************************************)
\* C8 as stated, restarts of the cursor included.
C8_AppendOrder ==
    [][\A p \in SwitchPeers :
          SentTo(p) => maxSent[p] <= event'.tx]_vars

\* C8 amended: every send is of the entry at the cursor; while the cursor
\* is set it changes only when the wait for a successor ends, and that wait
\* ends with the cursor on an entry appended later or unset; it is unset
\* only when the entry was removed from the list without a successor, and
\* it is then set to the front of the list, whatever was sent before.
C8_ForwardUntilRestart ==
    [][\A p \in SwitchPeers :
          /\ SentTo(p) => event'.tx = next[p] /\ next'[p] = next[p]
          /\ (next'[p] # next[p] /\ next[p] # Nil) =>
                /\ pc[p] = "waitNext"
                /\ next'[p] = Nil \/ next'[p] > next[p]
                /\ next'[p] = Nil => next[p] \notin live
          /\ (pc[p] = "waitNext" /\ pc'[p] \notin {"waitNext", "done"}) =>
                next'[p] = Nil \/ next'[p] > next[p]
          /\ (next'[p] # next[p] /\ next[p] = Nil) =>
                /\ pc[p] = "front"
                /\ next'[p] = Min(live)]_vars

\* An entry was sent after an entry appended later had been sent.
C8_Witness ==
    \E p \in SwitchPeers :
        /\ event.op = "send" /\ event.peer = p
        /\ maxSent[p] > event.tx

(***************************************************************************)
(* C9. Once the peer or the reactor has stopped, the peer's loop           *)
(* terminates, wherever it stands.                                         *)
(***************************************************************************)
C9_LoopTerminates ==
    \A p \in SwitchPeers :
        (pc[p] # "idle" /\ (~running \/ conn[p] # "up")) ~> (pc[p] = "done")

\* The loop has ended with its cursor on an entry, after its peer stopped
\* while the reactor was running and broadcasting.
C9_Witness ==
    \E p \in SwitchPeers :
        /\ pc[p] = "done"
        /\ broadcast /\ running /\ conn[p] \in {"stopped", "removed"}
        /\ next[p] # Nil

C11_Provenance ==
    [][\A p \in SwitchPeers :
          (/\ event'.op = "recv" /\ event'.peer = p
           /\ event'.res \in {"ok", "err"}
           /\ conn[p] \in {"up", "stopped"}) =>
              /\ p \in DOMAIN peerMap
              /\ event'.prov = peerMap[p]
              /\ event'.prov # 0
              /\ event'.prov \in activeIDs
              /\ \A q \in DOMAIN peerMap : q # p => peerMap[q] # event'.prov
              /\ event'.res = "ok" => senders'[event'.tx] = {peerMap[p]}
              /\ (\A q \in SwitchPeers : q # p => conn[q] = "none")
                 => event'.prov = 1]_vars

\* The second peer connected submitted a transaction that the pool
\* accepted, with its ID 2, while the first peer was connected with ID 1.
C11_Witness ==
    \E p, q \in SwitchPeers :
        /\ p # q
        /\ event.op = "recv" /\ event.peer = p /\ event.res = "ok"
        /\ event.prov = 2
        /\ senders[event.tx] = {2}
        /\ conn[q] = "up" /\ q \in DOMAIN peerMap /\ peerMap[q] = 1

(***************************************************************************)
(* C12. A Receive whose transaction the pool rejects, or whose message is  *)
(* of a type other than TxMessage, leaves the peer connected, its ID       *)
(* reserved and its broadcast loop where it stands; Receive stops a peer   *)
(* only on a decode error.                                                 *)
(***************************************************************************)
C12_RejectKeepsPeer ==
    [][\A p \in SwitchPeers :
          (event'.op = "recv" /\ event'.peer = p) =>
              /\ event'.res \in {"err", "unknown"} =>
                    /\ event'.stop = "nil"
                    /\ conn' = conn
                    /\ UNCHANGED idsVars
                    /\ UNCHANGED loopVars
                    /\ running' = running
              /\ (event'.stop # "nil" \/ conn' # conn) =>
                    /\ event'.bad
                    /\ event'.err # "nil"
                    /\ event'.res = "none"]_vars

\* The pool rejected a transaction of a connected peer whose loop waits for
\* a successor: the peer is connected and mapped, the loop still waits.
C12_Witness ==
    \E p \in SwitchPeers :
        /\ event.op = "recv" /\ event.peer = p /\ event.res = "err"
        /\ conn[p] = "up"
        /\ p \in DOMAIN peerMap /\ peerMap[p] # 0
        /\ pc[p] = "waitNext"

(***************************************************************************)
(* C13. Registry calls made concurrently for distinct peers are serialized *)
(* by ids.mtx: a reservation or a reclamation never holds the mutex while  *)
(* another call holds it, and whenever no reservation or reclamation holds *)
(* it every added peer has its own non-zero ID, the active non-zero IDs    *)
(* are the IDs of the map, and a lookup returns the ID of its peer.        *)
(***************************************************************************)
C13_Serialized ==
    /\ \A p, q \in SwitchPeers :
          (p # q /\ thread[p].pc \notin {"idle", "lock"}
                 /\ thread[q].pc \notin {"idle", "lock"})
          => (thread[p].op = "lookup" /\ thread[q].op = "lookup")
    /\ (\A p \in SwitchPeers :
           thread[p].pc \in {"idle", "lock"} \/ thread[p].op = "lookup")
       => /\ 0 \in activeIDs
          /\ activeIDs \ {0} = {peerMap[p] : p \in DOMAIN peerMap}
          /\ \A p \in SwitchPeers : thread[p].in <=> p \in DOMAIN peerMap
          /\ \A p \in DOMAIN peerMap : peerMap[p] # 0
          /\ \A p, q \in DOMAIN peerMap : p # q => peerMap[p] # peerMap[q]
          /\ \A p \in SwitchPeers :
                (thread[p].op = "lookup" /\ thread[p].pc = "unlock")
                => thread[p].cur = IF p \in DOMAIN peerMap
                                   THEN peerMap[p] ELSE 0

\* Two AddPeer calls ran at once, one waiting at Lock while the other was
\* between its writes, and both peers are mapped now.
C13_Witness ==
    \E p, q \in SwitchPeers :
        /\ p # q
        /\ thread[p].op = "reserve" /\ thread[p].pc = "unlock"
        /\ thread[q].op = "reserve" /\ thread[q].pc = "lock"
        /\ p \in DOMAIN peerMap /\ q \notin DOMAIN peerMap
        /\ peerMap[p] \in activeIDs

(***************************************************************************)
(* C14. decodeMsg returns the size error for every byte string longer than *)
(* maxMsgSize, whatever its content, and a message for none of them; it    *)
(* returns the size error for no byte string of length maxMsgSize or less, *)
(* and a well-formed one of length exactly maxMsgSize decodes to its       *)
(* message.                                                                *)
(***************************************************************************)
C14_SizeBound ==
    decoded # NoResult =>
        /\ decoded.of.size > maxMsgSize =>
              /\ decoded.err = "size"
              /\ decoded.shape = "nil" /\ decoded.tx = 0
        /\ decoded.of.size <= maxMsgSize =>
              /\ decoded.err # "size"
              /\ decoded.of.shape # "garbage" =>
                    /\ decoded.err = "nil"
                    /\ decoded.shape = decoded.of.shape
                    /\ decoded.tx = decoded.of.tx
              /\ decoded.of.shape = "garbage" => decoded.err = "decode"

\* A transaction message of exactly maxMsgSize bytes was decoded, and the
\* bytes that arrived after it are one byte longer.
C14_Witness ==
    /\ decoded.of.size = maxMsgSize /\ decoded.of.shape = "tx"
    /\ decoded.err = "nil" /\ decoded.shape = "tx"
    /\ decoded.tx = decoded.of.tx /\ decoded.tx # 0
    /\ frame.size = maxMsgSize + 1

(***************************************************************************)
(* C15. The cursor leaves an entry only from the wait for its successor,   *)
(* and the loop enters that wait only by a successful send of the entry or *)
(* because the peer's ID is among the entry's senders; when the peer has   *)
(* no state, lags by more than one block, or the send returns false, the   *)
(* loop sleeps and then examines the same entry again.                     *)
(***************************************************************************)
C15_NoEntryPassedOver ==
    [][\A p \in SwitchPeers :
          /\ (next[p] # Nil /\ next'[p] # next[p]) => pc[p] = "waitNext"
          /\ (pc'[p] = "waitNext" /\ pc[p] # "waitNext") =>
                /\ pc[p] = "read"
                /\ next'[p] = next[p]
                /\ \/ event'.op = "send" /\ event'.peer = p
                                         /\ event'.tx = next[p]
                                         /\ maxSent'[p] >= next[p]
                   \/ peerID[p] \in senders[next[p]]
          /\ (pc[p] = "read" /\ pc'[p] # "read"
                /\ event'.op # "send"
                /\ peerID[p] \notin senders[next[p]]) =>
                /\ pc'[p] \in Sleeps
                /\ next'[p] = next[p]
                /\ maxSent'[p] = maxSent[p]
          /\ (pc[p] \in Sleeps /\ pc'[p] # pc[p]) =>
                /\ next'[p] = next[p]
                /\ pc'[p] \in {"read", "done"}]_vars

\* A send of the first entry returned false: the loop sleeps with its
\* cursor on the entry, unsent, although the entry's successor is there.
C15_Witness ==
    \E p \in SwitchPeers :
        /\ pc[p] = "sleepSend"
        /\ next[p] = 1 /\ nextOf[1] = 2 /\ 2 \in live
        /\ maxSent[p] = 0
        /\ peerID[p] \notin senders[1]

(***************************************************************************)
(* C16. The loop reads an entry (its value, its senders, its successor     *)
(* signal) only through a set cursor.  A cursor that becomes unset sends   *)
(* the loop back to its head, and from the head an unset cursor leads only *)
(* to the wait for entries, from there to the front of the list, or to the *)
(* end of the loop; the program is never aborted.                          *)
(***************************************************************************)
C16_UnsetCursorNotRead ==
    [][\A p \in SwitchPeers :
          /\ ~aborted'
          /\ pc'[p] \in {"read", "waitNext"} \cup Sleeps => next'[p] \in Entries
          /\ pc'[p] \in {"wait", "front"} => next'[p] = Nil
          /\ (next[p] # Nil /\ next'[p] = Nil) =>
                pc[p] = "waitNext" /\ pc'[p] = "top"
          /\ (pc[p] = "top" /\ next[p] = Nil /\ pc'[p] # "top") =>
                pc'[p] \in {"wait", "done"}
          /\ (pc[p] = "wait" /\ pc'[p] # "wait") =>
                pc'[p] \in {"front", "done"}
          /\ (pc[p] = "front" /\ pc'[p] # "front") =>
                /\ next'[p] = TxsFront
                /\ pc'[p] = IF TxsFront = Nil THEN "top" ELSE "read"]_vars

\* The loop has sent an entry, the entry left the list without a
\* successor, and the loop waits for entries with its cursor unset.
C16_Witness ==
    \E p \in SwitchPeers :
        /\ pc[p] = "wait"
        /\ next[p] = Nil
        /\ maxSent[p] >= 1
        /\ live = {}
        /\ conn[p] = "up" /\ running

(***************************************************************************)
(* C17. With broadcasting enabled and the peer's loop scheduled fairly,    *)
(* an entry in the pool that the loop has not reached yet is eventually    *)
(* sent to the peer, unless the entry leaves the pool, the peer's ID is in *)
(* the entry's senders, the peer or the reactor stops, or the peer has no  *)
(* state or lags by more than one block.                                   *)
(***************************************************************************)
C17_EventuallySent ==
    \A p \in SwitchPeers : \A e \in Entries :
        (broadcast /\ conn[p] = "up" /\ e \in live /\ maxSent[p] < e)
            ~> \/ event.op = "send" /\ event.peer = p /\ event.tx = e
               \/ e \notin live
               \/ peerID[p] \in senders[e]
               \/ ~running
               \/ conn[p] # "up"
               \/ peerHeight[p] = NoState
               \/ PeerBehind(peerHeight[p], e)

\* The second entry has just been sent to the peer, which did not supply
\* it, after the first entry was withheld from the peer that supplied it.
C17_Witness ==
    \E p \in SwitchPeers :
        /\ event.op = "send" /\ event.peer = p /\ event.tx = 2
        /\ peerID[p] \in senders[1]
        /\ peerID[p] \notin senders[2]
        /\ live = {1, 2}
        /\ conn[p] = "up" /\ running

(***************************************************************************)
(* C18. The loop of a peer sends each entry to the peer at most once, in   *)
(* every run of the loop, restarts of the cursor from the front included.  *)
(***************************************************************************)
\* C18 as stated: no send is of an entry that was sent to the peer before.
C18_AtMostOnce ==
    [][\A p \in SwitchPeers :
          SentTo(p) => event'.tx \notin sent[p]]_vars

\* C18 amended: after a successful send the loop waits for the entry's
\* successor, so one arrival of the cursor at an entry sends it once; an
\* entry is sent a second time only when an entry appended after it has
\* been removed from the list, which is what unsets the cursor, and the
\* entry itself was in the list when the cursor restarted from the front.
C18_OncePerPass ==
    [][\A p \in SwitchPeers :
          SentTo(p) =>
              /\ event'.tx = next[p]
              /\ pc'[p] = "waitNext"
              /\ sent'[p] = sent[p] \cup {event'.tx}
              /\ event'.tx \in sent[p] =>
                    \E e \in Entries :
                        e > event'.tx /\ e <= nApp /\ e \notin live]_vars

\* The first entry has just been sent for the second time: the second
\* entry was sent and then removed, and the cursor restarted from the front.
C18_Witness ==
    \E p \in SwitchPeers :
        /\ event.op = "send" /\ event.peer = p /\ event.tx = 1
        /\ sent[p] = {1, 2}
        /\ 1 \in live /\ 2 \notin live
        /\ pc[p] = "waitNext" /\ next[p] = 1

(***************************************************************************)
(* C19. The loop of a connected peer P skips an entry, because the ID it   *)
(* holds is among the entry's senders, only if P itself submitted the      *)
(* entry: the ID was not recorded for another peer that held it earlier.   *)
(***************************************************************************)
C19_SkipsOnlyOwnEntries ==
    [][\A p \in SwitchPeers :
          (pc[p] = "read" /\ pc'[p] = "waitNext" /\ event'.op # "send") =>
              p \in suppliers[next[p]]]_vars

(***************************************************************************)
(* C20. With broadcasting disabled the loop started by AddPeer returns in  *)
(* its first step and nothing is ever sent to a peer, while AddPeer        *)
(* reserves an ID, RemovePeer reclaims it, and Receive submits a decoded   *)
(* transaction to the pool with the peer's ID as provenance.               *)
(***************************************************************************)
C20_BroadcastDisabled ==
    [][~broadcast =>
         \A p \in SwitchPeers :
            /\ ~broadcast'
            /\ pc'[p] \in {"idle", "start", "done"}
            /\ (pc[p] = "start" /\ pc'[p] # "start") => pc'[p] = "done"
            /\ event'.op # "send"
            /\ maxSent'[p] = 0 /\ next'[p] = Nil
            /\ (conn[p] = "none" /\ conn'[p] = "up") =>
                  /\ p \notin DOMAIN peerMap
                  /\ p \in DOMAIN peerMap'
                  /\ peerMap'[p] \in activeIDs' \ (activeIDs \cup {0})
                  /\ pc'[p] = "start"
            /\ (conn[p] = "stopped" /\ conn'[p] = "removed") =>
                  /\ p \notin DOMAIN peerMap'
                  /\ p \in DOMAIN peerMap =>
                        activeIDs' = activeIDs \ {peerMap[p]}
            /\ (event'.op = "recv" /\ event'.peer = p
                  /\ event'.res \in {"ok", "err"}) =>
                  /\ event'.prov = GetForPeer(p)
                  /\ p \in DOMAIN peerMap => event'.prov = peerMap[p]
                  /\ event'.res = "ok" =>
                        /\ event'.tx \in live' \ live
                        /\ senders'[event'.tx] = {GetForPeer(p)}]_vars

\* Broadcasting is disabled, the loop of a connected peer with a state has
\* returned, and a transaction received from the peer has just been
\* appended to the pool with the peer's ID.
C20_Witness ==
    \E p \in SwitchPeers :
        /\ ~broadcast
        /\ pc[p] = "done"
        /\ conn[p] = "up" /\ running
        /\ peerHeight[p] # NoState
        /\ event.op = "recv" /\ event.peer = p /\ event.res = "ok"
        /\ event.prov = peerMap[p] /\ event.prov # 0
        /\ event.tx \in live
        /\ senders[event.tx] = {peerMap[p]}

=============================================================================
